---- MODULE Spec2Model ----
(***************************************************************************)
(* Model of the link shortener's stateful parts and their composition:     *)
(*   - LruCache          (src/src/utils/lru-cache.ts)                      *)
(*   - RateLimiterStore  (src/src/middleware/error-handler.ts, l. 65-130)  *)
(*   - createRateLimiter middleware and the two module-level policies      *)
(*     mounted by app.ts and link.routes.ts.                               *)
(*   - LinkService over InMemoryLinkRepository, with its two LruCaches     *)
(*                                                                         *)
(* Six specifications share the variables:                                 *)
(*   SpecCache       one LruCache of any capacity 0..MaxCapacity           *)
(*   SpecLimiter     one RateLimiterStore with any options, called         *)
(*                   directly                                              *)
(*   SpecSweep       the same store over two runs of its cleanup, with the *)
(*                   fairness of the interval callback and of the clock    *)
(*   SpecMiddleware  one middleware built by createRateLimiter(options)    *)
(*   SpecApp         the application's chain: globalRateLimiter, then on   *)
(*                   POST /api/links createLinkRateLimiter                 *)
(*   SpecService     one LinkService: shortenUrl and resolveShortCode in   *)
(*                   any order, with generateShortId() free to repeat a    *)
(*                   value                                                 *)
(***************************************************************************)
EXTENDS Integers, Sequences, FiniteSets, TLC

VARIABLES
    \* ---- LruCache ----
    cache,        \* this.entries: the Map, as the sequence of its [key, value]
                  \* pairs in iteration (insertion) order, oldest first
    maxSize,      \* this.maxSize
    touches,      \* history: keys touched by a set or by a get that hit,
                  \* oldest first, since construction or the last clear()
    ret,          \* history: the last cache call, the value it was given, what
                  \* it returned and which keys it removed
    \* ---- RateLimiterStore / middleware ----
    now,          \* Date.now(), in ms
    options,      \* per store: the RateLimiterOptions it was built with
    entries,      \* per store: this.entries, key -> RateLimitEntry | NoEntry
    cleanupTimer, \* per store: this.cleanupTimer, null or the pending interval
    calls,        \* history: per store and key, number of check calls so far
    firstAt,      \* history: per store and key, Date.now() of the first check
    admitted,     \* history: per store and key, the resetAt last returned by a
                  \* direct check and how many checks returning it were admitted
    destroys,     \* history: per store, number of destroy() calls so far
    unswept,      \* history: per store, what this.entries would hold after the
                  \* same direct checks if the cleanup had never run
    result,       \* history: the last RateLimitResult returned by check
    pc,           \* position of the request being handled
    req,          \* the request being handled
    res,          \* the response of the request being handled
    \* ---- LinkService / InMemoryLinkRepository ----
    objects,        \* the Link objects constructed so far, by reference
    links,          \* InMemoryLinkRepository.links: the Map from id to Link, as
                    \* the sequence of its [key, value] pairs in insertion order
    shortCodeCache, \* LinkService.shortCodeCache, the entries of the LruCache
    urlCache,       \* LinkService.urlCache, the entries of the LruCache
    out             \* history: the last service call and its outcome

cacheVars == <<cache, maxSize, touches, ret>>

limiterVars == <<now, options, entries, cleanupTimer, calls, firstAt, admitted, destroys, unswept, result, pc, req, res>>

serviceVars == <<objects, links, shortCodeCache, urlCache, out>>

vars == <<cache, maxSize, touches, ret, now, options, entries, cleanupTimer, calls, firstAt, admitted, destroys,
          unswept, result, pc, req, res, objects, links, shortCodeCache, urlCache, out>>

(***************************************************************************)
(* Bounds of the model                                                     *)
(***************************************************************************)
\* capacities 0..MaxCapacity are tried for the cache
MaxCapacity == 2

\* number of touches (set, or get that hits) between two clear() calls
MaxOps == 5

CacheKeys == {"A", "B", "C"}

CacheVals == {"v1", "v2"}

\* undefined, as returned by Map.get / LruCache.get
Undefined == "undefined"

NoKey == "none"

\* thresholds 0..MaxThreshold are tried for a store built by a caller
MaxThreshold == 2

\* check calls per key beyond the store's threshold
MaxOver == 2

\* destroy() calls per store
MaxDestroys == 2

\* the readings of Date.now() that are tried, in ms since the stores were built:
\* inside, at the end of and after a window of either length, and around the
\* first run of the cleanup interval
Instants == {0, 500, 1000, 2000, 60000, 61000}

\* the readings tried where the cleanup is followed over two of its runs
SweepInstants == {0, 1000, 60000, 61000, 120000}

\* check calls per key where the cleanup is followed
MaxSweepChecks == 2

\* the last of them
LastSweepInstant == CHOOSE t \in SweepInstants : \A u \in SweepInstants : u <= t

\* window lengths tried for a store built by a caller
WindowChoices == {1000, 60000}

\* the readings tried for the application, whose windows are all 60000 ms long
AppInstants == {0, 500, 60000}

\* caller addresses; a request without req.ip carries Undefined
Ips == {"10.0.0.1", Undefined}

\* the application model follows one caller
AppIps == {"10.0.0.1"}

NoTimer == -1

\* Link objects the service constructs in one run
MaxLinks == 3

\* the service builds both caches with CACHE_MAX_SIZE entries; the capacities
\* 1..MaxServiceCapacity are tried
MaxServiceCapacity == 2

\* the values generateShortId() returns, named in the order of their first
\* appearance; a call may return any value returned before, or a new one
TokenOrder == <<"t1", "t2", "t3">>

Tokens == {TokenOrder[i] : i \in 1..Len(TokenOrder)}

\* strings that new URL(url) accepts, named in the order of their first use
UrlOrder == <<"https://a.example", "https://b.example", "https://c.example">>

WellFormedUrls == {UrlOrder[i] : i \in 1..Len(UrlOrder)}

\* what else a request body may carry as url
MalformedUrls == {"not a url", Undefined}

\* the references of the Link objects, in the order of their construction
LinkRefs == <<"link1", "link2", "link3", "link4", "link5", "link6">>

(***************************************************************************)
(* LruCache                                                                *)
(***************************************************************************)
\* keys of a Map given as its sequence of pairs
KeysOf(m) == {m[i].key : i \in 1..Len(m)}

\* Map.prototype.has
MapHas(m, key) == key \in KeysOf(m)

\* Map.prototype.get
MapGet(m, key) ==
    IF MapHas(m, key)
    THEN m[CHOOSE i \in 1..Len(m) : m[i].key = key].value
    ELSE Undefined

\* Map.prototype.delete
MapDelete(m, key) == SelectSeq(m, LAMBDA e : e.key # key)

\* Map.prototype.set: a key already present keeps its place in the iteration
\* order, a new key goes last
MapSet(m, key, value) ==
    IF MapHas(m, key)
    THEN [i \in 1..Len(m) |-> IF m[i].key = key THEN [key |-> key, value |-> value] ELSE m[i]]
    ELSE Append(m, [key |-> key, value |-> value])

\* LruCache.get (lines 11-23): the entries after the call
LruGetNoPromote(m, key) == m

LruGet(m, key) ==
    LET value == MapGet(m, key)
    IN  IF value = Undefined
        THEN m
        ELSE MapSet(MapDelete(m, key), key, value)

\* LruCache.set (lines 25-38): the entries after the call
LruSetLateEvict(m, cap, key, value) ==
    LET m1 == IF MapHas(m, key) THEN MapDelete(m, key) ELSE m
        m2 == MapSet(m1, key, value)
    IN  IF Len(m2) > cap + 1 THEN MapDelete(m2, m2[1].key) ELSE m2

LruSetEvictsOnOverwrite(m, cap, key, value) ==
    LET m1 == IF MapHas(m, key) THEN MapDelete(m, key) ELSE m
        m2 == MapSet(m1, key, value)
    IN  IF Len(m) + 1 > cap
        THEN LET oldestKey == m2[1].key IN MapDelete(m2, oldestKey)
        ELSE m2

LruSetKeepsLastEntry(m, cap, key, value) ==
    LET m1 == IF MapHas(m, key) THEN MapDelete(m, key) ELSE m
        m2 == MapSet(m1, key, value)
    IN  IF Len(m2) > cap /\ Len(m2) > 1
        THEN LET oldestKey == m2[1].key IN MapDelete(m2, oldestKey)
        ELSE m2

LruSet(m, cap, key, value) ==
    LET m1 == IF MapHas(m, key) THEN MapDelete(m, key) ELSE m
        m2 == MapSet(m1, key, value)
    IN  IF Len(m2) > cap
        THEN LET oldestKey == m2[1].key IN MapDelete(m2, oldestKey)
        ELSE m2

\* LruCache.has (lines 40-42): the entries after the call, and the answer
LruHasPromotes(m, key) == LruGet(m, key)

LruHasEntries(m, key) == m

LruHas(m, key) == MapHas(m, key)

\* LruCache.size (lines 44-46)
LruSize(m) == Len(m)

\* LruCache.clear (lines 48-50)
LruClear(m) == <<>>

Bool(b) == IF b THEN "true" ELSE "false"

\* cache.get(key)
Get(key) ==
    /\ MapHas(cache, key) => Len(touches) < MaxOps
    /\ cache' = LruGet(cache, key)
    /\ touches' = IF MapHas(cache, key) THEN Append(touches, key) ELSE touches
    /\ ret' = [op |-> "get", key |-> key, arg |-> Undefined, value |-> MapGet(cache, key),
               removed |-> {}]
    /\ UNCHANGED maxSize

\* cache.set(key, value)
Set(key, value) ==
    /\ Len(touches) < MaxOps
    /\ cache' = LruSet(cache, maxSize, key, value)
    /\ touches' = Append(touches, key)
    /\ ret' = [op |-> "set", key |-> key, arg |-> value, value |-> Undefined,
               removed |-> (KeysOf(cache) \cup {key}) \ KeysOf(cache')]
    /\ UNCHANGED maxSize

\* cache.has(key)
Has(key) ==
    /\ cache' = LruHasEntries(cache, key)
    /\ ret' = [op |-> "has", key |-> key, arg |-> Undefined, value |-> Bool(LruHas(cache, key)),
               removed |-> {}]
    /\ UNCHANGED <<maxSize, touches>>

\* cache.clear()
Clear ==
    /\ cache' = LruClear(cache)
    /\ touches' = <<>>
    /\ ret' = [op |-> "clear", key |-> NoKey, arg |-> Undefined, value |-> Undefined,
               removed |-> KeysOf(cache)]
    /\ UNCHANGED maxSize

(***************************************************************************)
(* RateLimiterStore                                                        *)
(***************************************************************************)
CLEANUP_INTERVAL_MS == 60000

\* RateLimiterStore.check (lines 77-106): this.entries after the call
CheckEntriesDenialRestarts(m, opts, t, key) ==
    IF key \notin DOMAIN m \/ t >= m[key].resetAt
    THEN (key :> [count |-> 1, resetAt |-> t + opts.windowMs]) @@ m
    ELSE IF m[key].count + 1 > opts.maxRequests
         THEN [m EXCEPT ![key].count = @ + 1, ![key].resetAt = t + opts.windowMs]
         ELSE [m EXCEPT ![key].count = @ + 1]

CheckEntriesLateExpiry(m, opts, t, key) ==
    IF key \notin DOMAIN m \/ t > m[key].resetAt
    THEN (key :> [count |-> 1, resetAt |-> t + opts.windowMs]) @@ m
    ELSE [m EXCEPT ![key].count = @ + 1]

CheckEntriesSharedWindow(m, opts, t, key) ==
    IF key \notin DOMAIN m \/ t >= m[key].resetAt
    THEN (key :> [count |-> 1, resetAt |-> t + opts.windowMs])
    ELSE [m EXCEPT ![key].count = @ + 1]

CheckEntries(m, opts, t, key) ==
    IF key \notin DOMAIN m \/ t >= m[key].resetAt
    THEN (key :> [count |-> 1, resetAt |-> t + opts.windowMs]) @@ m
    ELSE [m EXCEPT ![key].count = @ + 1]

\* RateLimiterStore.check (lines 77-106): the RateLimitResult returned
CheckResult(m, opts, t, key) ==
    IF key \notin DOMAIN m \/ t >= m[key].resetAt
    THEN [isLimited |-> FALSE, remaining |-> opts.maxRequests - 1, resetAt |-> t + opts.windowMs]
    ELSE IF m[key].count + 1 > opts.maxRequests
         THEN [isLimited |-> TRUE, remaining |-> 0, resetAt |-> m[key].resetAt]
         ELSE [isLimited |-> FALSE, remaining |-> opts.maxRequests - (m[key].count + 1),
               resetAt |-> m[key].resetAt]

\* the interval callback of startCleanup (lines 109-116): this.entries after a run
SweepEntriesRemovesAll(m, t) == [key \in {} |-> m[key]]

SweepEntriesStrictlyPast(m, t) ==
    LET kept == {key \in DOMAIN m : ~(t > m[key].resetAt)}
    IN  [key \in kept |-> m[key]]

SweepEntries(m, t) ==
    LET kept == {key \in DOMAIN m : ~(t >= m[key].resetAt)}
    IN  [key \in kept |-> m[key]]

\* store.check(key) as seen by its caller: this.entries is updated and the
\* RateLimitResult comes back; the history also keeps for whom and when the
\* call was made and whether destroy() had stopped the cleanup by then
DoCheckTwice(s, key) ==
    LET once == CheckEntries(entries[s], options[s], now, key)
    IN  /\ entries' = [entries EXCEPT ![s] = CheckEntries(once, options[s], now, key)]
        /\ result' = [store |-> s, key |-> key, at |-> now, stopped |-> cleanupTimer[s] = NoTimer]
                     @@ CheckResult(once, options[s], now, key)

DoCheck(s, key) ==
    /\ entries' = [entries EXCEPT ![s] = CheckEntries(entries[s], options[s], now, key)]
    /\ result' = [store |-> s, key |-> key, at |-> now, stopped |-> cleanupTimer[s] = NoTimer]
                    @@ CheckResult(entries[s], options[s], now, key)

\* store.check(key), called directly as the tests do
Check(s, key) ==
    /\ pc = "idle"
    /\ calls[s][key] < options[s].maxRequests + MaxOver
    /\ DoCheck(s, key)
    /\ calls' = [calls EXCEPT ![s][key] = @ + 1]
    /\ firstAt' = [firstAt EXCEPT ![s][key] = IF calls[s][key] = 0 THEN now ELSE @]
    /\ LET r == CheckResult(entries[s], options[s], now, key)
           n == IF r.resetAt = admitted[s][key].resetAt THEN admitted[s][key].n ELSE 0
       IN  admitted' = [admitted EXCEPT ![s][key] =
                           [resetAt |-> r.resetAt, n |-> IF r.isLimited THEN n ELSE n + 1]]
    /\ unswept' = [unswept EXCEPT ![s] = CheckEntries(unswept[s], options[s], now, key)]
    /\ UNCHANGED <<now, options, destroys, cleanupTimer, pc, req, res>>

\* one run of the interval callback set up by startCleanup
Sweep(s) ==
    /\ pc = "idle"
    /\ cleanupTimer[s] # NoTimer
    /\ now >= cleanupTimer[s]
    /\ entries' = [entries EXCEPT ![s] = SweepEntries(entries[s], now)]
    /\ cleanupTimer' = [cleanupTimer EXCEPT ![s] = now + CLEANUP_INTERVAL_MS]
    /\ UNCHANGED <<now, options, destroys, calls, firstAt, admitted, unswept, result, pc, req, res>>

\* store.destroy() (lines 124-129)
DestroyKeepsTimer(timer) == timer

DestroyTimer(timer) == NoTimer

Destroy(s) ==
    /\ pc = "idle"
    /\ destroys[s] < MaxDestroys
    /\ cleanupTimer' = [cleanupTimer EXCEPT ![s] = DestroyTimer(cleanupTimer[s])]
    /\ destroys' = [destroys EXCEPT ![s] = @ + 1]
    /\ UNCHANGED <<now, options, entries, calls, firstAt, admitted, unswept, result, pc, req, res>>

\* the clock advances, also while a request is being handled
Tick(t) ==
    /\ t > now
    /\ now' = t
    /\ UNCHANGED <<options, destroys, entries, cleanupTimer, calls, firstAt, admitted, unswept, result, pc, req, res>>

(***************************************************************************)
(* createRateLimiter: the middleware                                       *)
(***************************************************************************)
\* Math.ceil(a / b) for integers a and b > 0
Ceil(a, b) == -((-a) \div b)

\* const key = req.ip ?? 'unknown' (line 140)
KeyOf(ip) == IF ip = Undefined THEN "unknown" ELSE ip

SetHeader(r, name, value) == [r EXCEPT !.headers = (name :> value) @@ @]

NoBody == [success |-> TRUE, message |-> Undefined, code |-> Undefined]

NewResponse == [headers |-> <<>>, statusCode |-> 200, body |-> NoBody, nextCalled |-> <<>>]

\* the model stops sending requests of a caller whose count in the current
\* window of store s is MaxOver above the threshold
MayCheck(s, key) ==
    IF key \notin DOMAIN entries[s]
    THEN TRUE
    ELSE IF now >= entries[s][key].resetAt
         THEN TRUE
         ELSE entries[s][key].count < options[s].maxRequests + MaxOver

\* a request enters a chain of rate limiter middlewares
StartRequest(ip, method, chain) ==
    /\ pc = "idle"
    /\ \A i \in 1..Len(chain) : MayCheck(chain[i], KeyOf(ip))
    /\ req' = [ip |-> ip, method |-> method, chain |-> chain]
    /\ res' = NewResponse
    /\ pc' = "middleware"
    /\ UNCHANGED <<now, options, destroys, entries, cleanupTimer, calls, firstAt, admitted, unswept, result>>

\* middleware(req, res, next) called on a mock request, as the tests do
Invoke(ip) == StartRequest(ip, Undefined, <<"store">>)

\* Retry-After as computed on lines 151-153
RetryAfterSec(resetAt, t) == Ceil(resetAt - t, 1000)

\* rateLimiterMiddleware, lines 140-150 and 166: check, the three headers, and
\* next() when the caller is admitted
RateLimiterMiddleware ==
    /\ pc = "middleware"
    /\ LET s == Head(req.chain)
           key == KeyOf(req.ip)
           r == CheckResult(entries[s], options[s], now, key)
           h1 == SetHeader(res, "X-RateLimit-Limit", options[s].maxRequests)
           h2 == SetHeader(h1, "X-RateLimit-Remaining", r.remaining)
           h3 == SetHeader(h2, "X-RateLimit-Reset", Ceil(r.resetAt, 1000))
       IN  /\ DoCheck(s, key)
           /\ UNCHANGED <<calls, firstAt, admitted, unswept>>
           /\ IF r.isLimited
              THEN /\ res' = h3
                   /\ pc' = "limited"
                   /\ req' = req
              ELSE /\ res' = [h3 EXCEPT !.nextCalled = Append(@, s)]
                   /\ req' = [req EXCEPT !.chain = Tail(@)]
                   /\ pc' = IF Tail(req.chain) = <<>> THEN "handler" ELSE "middleware"
    /\ UNCHANGED <<now, options, destroys, cleanupTimer>>

\* rateLimiterMiddleware, lines 151-163: Date.now() is read again for
\* Retry-After, then the 429 is sent and next() is not called
Reject ==
    /\ pc = "limited"
    /\ LET s == Head(req.chain)
           h == SetHeader(res, "Retry-After", RetryAfterSec(result.resetAt, now))
       IN  res' = [h EXCEPT !.statusCode = 429,
                            !.body = [success |-> FALSE, message |-> options[s].message,
                                      code |-> options[s].code]]
    /\ pc' = "idle"
    /\ UNCHANGED <<now, options, destroys, entries, cleanupTimer, calls, firstAt, admitted, unswept, result, req>>

\* what follows the last middleware: the test's next(), or the route's controller
Handler ==
    /\ pc = "handler"
    /\ pc' = "idle"
    /\ UNCHANGED <<now, options, destroys, entries, cleanupTimer, calls, firstAt, admitted, unswept, result, req, res>>

(***************************************************************************)
(* The module-level policies and where they are mounted                    *)
(***************************************************************************)
\* globalRateLimiter (lines 172-177)
GlobalOptions ==
    [windowMs |-> 60000, maxRequests |-> 100,
     message |-> "Too many requests, please try again later",
     code |-> "RATE_LIMIT_EXCEEDED"]

\* createLinkRateLimiter (lines 179-184)
CreateLinkOptions ==
    [windowMs |-> 60000, maxRequests |-> 10,
     message |-> "Too many link creation requests, please try again later",
     code |-> "CREATION_RATE_LIMIT_EXCEEDED"]

\* app.use(globalRateLimiter) comes before app.use('/api/links', linkRoutes), and
\* only router.post('/') mounts createLinkRateLimiter
ChainCreateFirst(method) ==
    IF method = "POST" THEN <<"createLink", "global">> ELSE <<"global">>

Chain(method) ==
    IF method = "POST" THEN <<"global", "createLink">> ELSE <<"global">>

\* a request reaches the application
Receive(ip, method) == StartRequest(ip, method, Chain(method))

(***************************************************************************)
(* InMemoryLinkRepository                                                  *)
(***************************************************************************)
\* the Links held by the repository, by reference, in the iteration order of
\* this.links.values()
RepoValues(ls) == [i \in 1..Len(ls) |-> ls[i].value]

\* findById (lines 30-32)
RepoFindById(ls, id) == MapGet(ls, id)

\* findByShortCode (lines 34-41): the first Link, in iteration order, whose
\* shortCode is the one asked for
RepoFindsNothing(ls, objs, shortCode) == Undefined

RepoFindLastByShortCode(ls, objs, shortCode) ==
    LET at == {i \in 1..Len(ls) : objs[ls[i].value].shortCode = shortCode}
    IN  IF at = {}
        THEN Undefined
        ELSE ls[CHOOSE i \in at : \A j \in at : j <= i].value

RepoFindByShortCode(ls, objs, shortCode) ==
    LET at == {i \in 1..Len(ls) : objs[ls[i].value].shortCode = shortCode}
    IN  IF at = {}
        THEN Undefined
        ELSE ls[CHOOSE i \in at : \A j \in at : i <= j].value

\* save (lines 43-46): this.links.set(link.id, link)
RepoSave(ls, objs, ref) == MapSet(ls, objs[ref].id, ref)

(***************************************************************************)
(* LinkService                                                             *)
(***************************************************************************)
CACHE_MAX_SIZE == 50

\* an AppError, and the value standing for no error thrown
AppError(message, statusCode, code) == [message |-> message, statusCode |-> statusCode, code |-> code]

NoError == AppError(Undefined, 0, Undefined)

\* errorHandler (lines 15-41) for an AppError: the status and the envelope sent
ErrorHandler(err) ==
    [statusCode |-> err.statusCode,
     body |-> [success |-> FALSE, error |-> [message |-> err.message, code |-> err.code]]]

\* validateUrl (lines 73-79): new URL(url) does not throw
IsWellFormedAlways(url) == TRUE

IsWellFormed(url) == url \in WellFormedUrls

\* the first name of order that is not in used, if there is one left
FirstUnused(order, used) ==
    LET free == {i \in 1..Len(order) : order[i] \notin used}
    IN  IF free = {} THEN {} ELSE {order[CHOOSE i \in free : \A j \in free : i <= j]}

\* what generateShortId() (short-id.utils.ts, lines 5-7) may return next when
\* the values in used were returned before: there is no uniqueness guarantee
GenerateShortId(used) == used \cup FirstUnused(TokenOrder, used)

\* the values generateShortId() has returned so far
Generated ==
    {objects[r].id : r \in DOMAIN objects} \cup {objects[r].shortCode : r \in DOMAIN objects}

\* the reference of the next Link object to be constructed
NextRef == LinkRefs[Cardinality(DOMAIN objects) + 1]

\* lines 66-67 and 48-49: the Link goes into both caches, under its shortCode
\* and under its originalUrl
PopulateShortCodeOnly(byCode, byUrl, cap, shortCode, originalUrl, ref) ==
    [byCode |-> LruSet(byCode, cap, shortCode, ref), byUrl |-> byUrl]

Populate(byCode, byUrl, cap, shortCode, originalUrl, ref) ==
    [byCode |-> LruSet(byCode, cap, shortCode, ref),
     byUrl |-> LruSet(byUrl, cap, originalUrl, ref)]

\* the record of a service call: what it returned or threw, the Link it passed
\* to save, and whether it wrote the caches
Outcome(op, arg, returned, thrown, saved, populated) ==
    [op |-> op, arg |-> arg, returned |-> returned, thrown |-> thrown, saved |-> saved,
     populated |-> populated]

\* linkService.shortenUrl(originalUrl) (lines 31-52)
ShortenUrl(originalUrl) ==
    IF ~IsWellFormed(originalUrl)
    THEN /\ out' = Outcome("shortenUrl", originalUrl, Undefined,
                           AppError("Invalid URL provided", 400, "INVALID_URL"), Undefined, FALSE)
         /\ UNCHANGED <<objects, links, shortCodeCache, urlCache>>
    ELSE LET cached == MapGet(urlCache, originalUrl)
         IN  IF cached # Undefined
             THEN /\ urlCache' = LruGet(urlCache, originalUrl)
                  /\ out' = Outcome("shortenUrl", originalUrl, cached, NoError, Undefined, FALSE)
                  /\ UNCHANGED <<objects, links, shortCodeCache>>
             ELSE /\ Cardinality(DOMAIN objects) < MaxLinks
                  /\ \E id \in GenerateShortId(Generated) :
                     \E shortCode \in GenerateShortId(Generated \cup {id}) :
                        LET link == [id |-> id, originalUrl |-> originalUrl,
                                     shortCode |-> shortCode, createdAt |-> now]
                            saved == NextRef
                            objs == (saved :> link) @@ objects
                            caches == Populate(shortCodeCache, LruGet(urlCache, originalUrl),
                                               maxSize, shortCode, originalUrl, saved)
                        IN  /\ objects' = objs
                            /\ links' = RepoSave(links, objs, saved)
                            /\ shortCodeCache' = caches.byCode
                            /\ urlCache' = caches.byUrl
                            /\ out' = Outcome("shortenUrl", originalUrl, saved, NoError, saved, TRUE)

\* linkService.resolveShortCode(shortCode) (lines 54-71)
ResolveShortCode(shortCode) ==
    LET cached == MapGet(shortCodeCache, shortCode)
    IN  IF cached # Undefined
        THEN /\ shortCodeCache' = LruGet(shortCodeCache, shortCode)
             /\ out' = Outcome("resolveShortCode", shortCode, cached, NoError, Undefined, FALSE)
             /\ UNCHANGED <<objects, links, urlCache>>
        ELSE LET link == RepoFindByShortCode(links, objects, shortCode)
             IN  IF link = Undefined
                 THEN /\ out' = Outcome("resolveShortCode", shortCode, Undefined,
                                        AppError("Short link not found", 404, "LINK_NOT_FOUND"),
                                        Undefined, FALSE)
                      /\ UNCHANGED <<objects, links, shortCodeCache, urlCache>>
                 ELSE LET caches == Populate(LruGet(shortCodeCache, shortCode), urlCache, maxSize,
                                             shortCode, objects[link].originalUrl, link)
                      IN  /\ shortCodeCache' = caches.byCode
                          /\ urlCache' = caches.byUrl
                          /\ out' = Outcome("resolveShortCode", shortCode, link, NoError, Undefined, TRUE)
                          /\ UNCHANGED <<objects, links>>

(***************************************************************************)
(* Specifications                                                          *)
(***************************************************************************)
NoResult == [store |-> NoKey, key |-> NoKey, at |-> 0, stopped |-> FALSE, isLimited |-> FALSE, remaining |-> 0, resetAt |-> 0]

NoRequest == [ip |-> Undefined, method |-> Undefined, chain |-> <<>>]

NoOutcome == Outcome("new", Undefined, Undefined, NoError, Undefined, FALSE)

\* new LinkService(new InMemoryLinkRepository())
ServiceBuilt ==
    /\ objects = <<>>
    /\ links = <<>>
    /\ shortCodeCache = <<>>
    /\ urlCache = <<>>
    /\ out = NoOutcome

CacheUnused ==
    /\ cache = <<>>
    /\ maxSize = 0
    /\ touches = <<>>
    /\ ret = [op |-> "new", key |-> NoKey, arg |-> Undefined, value |-> Undefined, removed |-> {}]

\* the stores named in ids, just built at time 0 with the options in opts
StoresBuilt(opts) ==
    /\ now = 0
    /\ options = opts
    /\ entries = [s \in DOMAIN opts |-> <<>>]
    /\ cleanupTimer = [s \in DOMAIN opts |-> CLEANUP_INTERVAL_MS]
    /\ calls = [s \in DOMAIN opts |-> [ip \in {KeyOf(i) : i \in Ips} |-> 0]]
    /\ firstAt = [s \in DOMAIN opts |-> [ip \in {KeyOf(i) : i \in Ips} |-> 0]]
    /\ admitted = [s \in DOMAIN opts |-> [ip \in {KeyOf(i) : i \in Ips} |-> [resetAt |-> 0, n |-> 0]]]
    /\ destroys = [s \in DOMAIN opts |-> 0]
    /\ unswept = [s \in DOMAIN opts |-> <<>>]
    /\ result = NoResult
    /\ pc = "idle"
    /\ req = NoRequest
    /\ res = NewResponse

\* new LruCache(maxSize)
InitCache ==
    /\ maxSize \in 0..MaxCapacity
    /\ cache = <<>>
    /\ touches = <<>>
    /\ ret = [op |-> "new", key |-> NoKey, arg |-> Undefined, value |-> Undefined, removed |-> {}]
    /\ StoresBuilt(<<>>)
    /\ ServiceBuilt

NextCache ==
    \/ \E key \in CacheKeys : Get(key) /\ UNCHANGED <<limiterVars, serviceVars>>
    \/ \E key \in CacheKeys, value \in CacheVals : Set(key, value) /\ UNCHANGED <<limiterVars, serviceVars>>
    \/ \E key \in CacheKeys : Has(key) /\ UNCHANGED <<limiterVars, serviceVars>>
    \/ Clear /\ UNCHANGED <<limiterVars, serviceVars>>

SpecCache == InitCache /\ [][NextCache]_vars

\* createRateLimiter(options) / new RateLimiterStore(windowMs, maxRequests)
InitLimiter ==
    /\ CacheUnused
    /\ ServiceBuilt
    /\ \E w \in WindowChoices, m \in 0..MaxThreshold :
          StoresBuilt([s \in {"store"} |->
                         [windowMs |-> w, maxRequests |-> m, message |-> "Rate limited",
                          code |-> "RATE_LIMITED"]])

NextLimiter ==
    \/ \E ip \in Ips : Check("store", KeyOf(ip)) /\ UNCHANGED <<cacheVars, serviceVars>>
    \/ Sweep("store") /\ UNCHANGED <<cacheVars, serviceVars>>
    \/ Destroy("store") /\ UNCHANGED <<cacheVars, serviceVars>>
    \/ \E t \in Instants : Tick(t) /\ UNCHANGED <<cacheVars, serviceVars>>

SpecLimiter == InitLimiter /\ [][NextLimiter]_vars

\* the same store over a longer time, with the event loop running the interval
\* callback once it is due and the clock going on
RunCleanup == Sweep("store") /\ UNCHANGED <<cacheVars, serviceVars>>

TimePasses == \E t \in SweepInstants : Tick(t) /\ UNCHANGED <<cacheVars, serviceVars>>

NextSweep ==
    \/ \E ip \in Ips :
          /\ calls["store"][KeyOf(ip)] < MaxSweepChecks
          /\ Check("store", KeyOf(ip))
          /\ UNCHANGED <<cacheVars, serviceVars>>
    \/ RunCleanup
    \/ Destroy("store") /\ UNCHANGED <<cacheVars, serviceVars>>
    \/ TimePasses

SpecSweep ==
    InitLimiter /\ [][NextSweep]_vars /\ WF_vars(RunCleanup) /\ WF_vars(TimePasses)

\* const middleware = createRateLimiter(options), then middleware(req, res, next)
NextMiddleware ==
    \/ \E ip \in Ips : Invoke(ip) /\ UNCHANGED <<cacheVars, serviceVars>>
    \/ RateLimiterMiddleware /\ UNCHANGED <<cacheVars, serviceVars>>
    \/ Reject /\ UNCHANGED <<cacheVars, serviceVars>>
    \/ Handler /\ UNCHANGED <<cacheVars, serviceVars>>
    \/ Sweep("store") /\ UNCHANGED <<cacheVars, serviceVars>>
    \/ \E t \in Instants : Tick(t) /\ UNCHANGED <<cacheVars, serviceVars>>

SpecMiddleware == InitLimiter /\ [][NextMiddleware]_vars

\* the application after its modules are loaded
InitApp ==
    /\ CacheUnused
    /\ ServiceBuilt
    /\ StoresBuilt([s \in {"global", "createLink"} |->
                      IF s = "global" THEN GlobalOptions ELSE CreateLinkOptions])

NextApp ==
    \/ \E ip \in AppIps, method \in {"POST", "GET"} : Receive(ip, method) /\ UNCHANGED <<cacheVars, serviceVars>>
    \/ RateLimiterMiddleware /\ UNCHANGED <<cacheVars, serviceVars>>
    \/ Reject /\ UNCHANGED <<cacheVars, serviceVars>>
    \/ Handler /\ UNCHANGED <<cacheVars, serviceVars>>
    \/ \E s \in {"global", "createLink"} : Sweep(s) /\ UNCHANGED <<cacheVars, serviceVars>>
    \/ \E t \in AppInstants : Tick(t) /\ UNCHANGED <<cacheVars, serviceVars>>

SpecApp == InitApp /\ [][NextApp]_vars

\* new LinkService(repository): both caches are built with the same capacity
InitService ==
    /\ maxSize \in {c \in 1..CACHE_MAX_SIZE : c <= MaxServiceCapacity}
    /\ cache = <<>>
    /\ touches = <<>>
    /\ ret = [op |-> "new", key |-> NoKey, arg |-> Undefined, value |-> Undefined, removed |-> {}]
    /\ StoresBuilt(<<>>)
    /\ ServiceBuilt

\* the URLs that Links were created for so far
Shortened == {objects[r].originalUrl : r \in DOMAIN objects}

NextService ==
    \/ \E originalUrl \in Shortened \cup FirstUnused(UrlOrder, Shortened) \cup MalformedUrls :
          ShortenUrl(originalUrl) /\ UNCHANGED <<cacheVars, limiterVars>>
    \/ \E shortCode \in GenerateShortId(Generated) :
          ResolveShortCode(shortCode) /\ UNCHANGED <<cacheVars, limiterVars>>

SpecService == InitService /\ [][NextService]_vars

(***************************************************************************)
(* Properties of LruCache, checked under SpecCache                         *)
(***************************************************************************)
\* position in touches of the last touch of key, 0 if it was never touched
LastTouch(key) ==
    LET at == {i \in 1..Len(touches) : touches[i] = key}
    IN  IF at = {} THEN 0 ELSE CHOOSE i \in at : \A j \in at : j <= i

Touched == {touches[i] : i \in 1..Len(touches)}

\* the n most recently touched keys (all of them when fewer were touched)
MostRecentlyTouched(n) ==
    {k \in Touched : Cardinality({j \in Touched : LastTouch(j) > LastTouch(k)}) < n}

\* C1: the keys present are exactly the maxSize keys most recently touched by
\* a get or a set, and a key that a set evicted was touched less recently
\* than every key the set left in the cache.
C1_EvictsLeastRecentlyTouched ==
    /\ KeysOf(cache) = MostRecentlyTouched(maxSize)
    /\ ret.op = "set" =>
          \A e \in ret.removed : \A k \in KeysOf(cache) : LastTouch(e) < LastTouch(k)

\* capacity 2: set A, set B, get A, set C has evicted B and kept A and C
C1_Witness ==
    /\ maxSize = 2
    /\ touches = <<"A", "B", "A", "C">>
    /\ ret.op = "set"
    /\ ret.removed = {"B"}
    /\ KeysOf(cache) = {"A", "C"}

\* C2: after every operation the size is at most the capacity, and a set has
\* removed at most one entry by the time it returns.
C2_SizeWithinCapacity ==
    /\ LruSize(cache) <= maxSize
    /\ ret.op = "set" => Cardinality(ret.removed) <= 1

\* a set on a full cache of capacity 2 has evicted one entry
C2_Witness ==
    /\ maxSize = 2
    /\ ret.op = "set"
    /\ Cardinality(ret.removed) = 1
    /\ LruSize(cache) = 2

\* C3: a has call changes neither the contents nor the order of the entries,
\* so the entry the next set evicts is the one it would have evicted anyway.
C3_HasKeepsRecency == [][ret'.op = "has" => cache' = cache]_vars

\* has answered true on a full cache that holds its least recently used key:
\* the next set of another key evicts it
C3_Witness ==
    /\ ret.op = "has"
    /\ ret.value = "true"
    /\ maxSize >= 1
    /\ LruSize(cache) = maxSize
    /\ cache[1].key = ret.key

\* C21: a set on a key that is present leaves the size and the set of keys as
\* they were, also when the cache is full, moves the key behind every other
\* key without changing their order, and stores the new value, which is what
\* a get of the key then returns.
C21_OverwriteInPlace ==
    [][(ret'.op = "set" /\ MapHas(cache, ret'.key)) =>
          /\ LruSize(cache') = LruSize(cache)
          /\ KeysOf(cache') = KeysOf(cache)
          /\ ret'.removed = {}
          /\ MapDelete(cache', ret'.key) = MapDelete(cache, ret'.key)
          /\ cache'[Len(cache')] = [key |-> ret'.key, value |-> ret'.arg]
          /\ MapGet(LruGet(cache', ret'.key), ret'.key) = ret'.arg
          /\ MapGet(cache', ret'.key) = ret'.arg]_vars

\* the oldest key of a full cache of two was overwritten with another value:
\* both keys are still there and the overwritten one is now the newest
C21_Witness ==
    /\ maxSize = 2
    /\ ret.op = "set"
    /\ ret.removed = {}
    /\ Len(cache) = 2
    /\ cache[2] = [key |-> ret.key, value |-> "v2"]
    /\ Len(touches) >= 3
    /\ touches[Len(touches) - 2] = ret.key
    /\ touches[Len(touches) - 1] = cache[1].key
    /\ cache[1].key # ret.key

\* C22: a cache of capacity 0 never holds anything: every set removes the
\* key it has just inserted, the size is 0, and has and get find no key.
C22_CapacityZeroStoresNothing ==
    maxSize = 0 =>
       /\ LruSize(cache) = 0
       /\ \A key \in CacheKeys : ~LruHas(cache, key) /\ MapGet(cache, key) = Undefined
       /\ ret.op = "set" => ret.removed = {ret.key}
       /\ ret.op = "get" => ret.value = Undefined
       /\ ret.op = "has" => ret.value = "false"

\* a get of a key that was set twice before finds nothing
C22_Witness ==
    /\ maxSize = 0
    /\ ret.op = "get"
    /\ ret.value = Undefined
    /\ Len(touches) >= 2
    /\ touches[Len(touches)] = ret.key
    /\ touches[Len(touches) - 1] = ret.key

(***************************************************************************)
(* Properties of RateLimiterStore, checked under SpecLimiter               *)
(***************************************************************************)
\* the step is a call of store.check(key) on the store built by the caller
IsCheck(key) == calls'["store"][key] = calls["store"][key] + 1

M == options["store"].maxRequests

W == options["store"].windowMs

Keys == {KeyOf(ip) : ip \in Ips}

\* C4: while all calls for a key fall inside the window its first call opened,
\* the n-th call is admitted with remaining = M - n for n <= M, and the
\* (M+1)-th is denied with remaining = 0.
C4_FirstWindowCountdown ==
    result.store = "store" /\ result.at < firstAt["store"][result.key] + W =>
        LET n == calls["store"][result.key]
        IN  /\ n <= M => ~result.isLimited /\ result.remaining = M - n
            /\ n = M + 1 => result.isLimited /\ result.remaining = 0

\* the countdown for thresholds of at least 1
C4_PositiveThreshold == M >= 1 => C4_FirstWindowCountdown

\* threshold 2: the third call inside the window is the first one denied
C4_PositiveThresholdWitness ==
    /\ result.store = "store"
    /\ M = 2
    /\ calls["store"][result.key] = 3
    /\ result.at < firstAt["store"][result.key] + W
    /\ result.isLimited
    /\ result.remaining = 0

\* C5: a check made before resetAt for a key that has used up its threshold is
\* denied and reports the resetAt the entry already had; every check made
\* before resetAt, denied or not, leaves that resetAt in place, and in the
\* key's first window it is firstAt + windowMs.
C5_DenialKeepsWindow ==
    [][\A key \in Keys :
          IsCheck(key) =>
             /\ (key \in DOMAIN entries["store"]
                 /\ now < entries["store"][key].resetAt
                 /\ entries["store"][key].count >= M)
                => /\ result'.isLimited
                   /\ result'.resetAt = entries["store"][key].resetAt
             /\ (key \in DOMAIN entries["store"] /\ now < entries["store"][key].resetAt)
                => /\ entries'["store"][key].resetAt = entries["store"][key].resetAt
                   /\ result'.resetAt = entries["store"][key].resetAt
             /\ (result.key = key /\ result.isLimited /\ now < result.resetAt)
                => /\ result'.isLimited
                   /\ result'.resetAt = result.resetAt
             /\ result'.isLimited
                => /\ key \in DOMAIN entries["store"]
                   /\ now < entries["store"][key].resetAt
                   /\ entries'["store"][key].resetAt = entries["store"][key].resetAt
                   /\ result'.resetAt = entries["store"][key].resetAt
                   /\ (now < firstAt["store"][key] + W
                       => result'.resetAt = firstAt["store"][key] + W)]_vars

\* a second denial in a row, later in the window than the first call
C5_Witness ==
    /\ result.store = "store"
    /\ result.isLimited
    /\ calls["store"][result.key] >= M + 2
    /\ result.at > firstAt["store"][result.key]
    /\ result.resetAt = firstAt["store"][result.key] + W

\* C6: a check at or after the key's resetAt, or for a key without an entry
\* (never seen, or removed by the sweep), opens a new window: the entry becomes
\* count = 1, resetAt = now + windowMs and the call is admitted with
\* remaining = M - 1.
C6_FreshWindowAfterReset ==
    [][\A key \in Keys :
          IsCheck(key)
          /\ (IF key \in DOMAIN entries["store"]
              THEN now >= entries["store"][key].resetAt
              ELSE TRUE)
          => /\ entries'["store"][key] = [count |-> 1, resetAt |-> now + W]
             /\ ~result'.isLimited
             /\ result'.remaining = M - 1
             /\ result'.resetAt = now + W]_vars

\* a key blocked in its first window is admitted again by a check made at the
\* very instant its resetAt is reached
C6_Witness ==
    /\ result.store = "store"
    /\ M >= 1
    /\ calls["store"][result.key] = M + 2
    /\ result.at = firstAt["store"][result.key] + W
    /\ ~result.isLimited
    /\ result.remaining = M - 1
    /\ result.resetAt = result.at + W

\* the one-key map holding key's entry, if it has one
Only(m, key) == [k \in DOMAIN m \cap {key} |-> m[k]]

\* C7: a check for one key leaves every other key's entry (present or absent,
\* count and resetAt) as it was, and its result is the one it would return
\* from a store holding that key's entry alone.
C7_KeysIndependent ==
    [][\A key \in Keys :
          IsCheck(key) =>
             /\ \A other \in Keys \ {key} :
                   Only(entries'["store"], other) = Only(entries["store"], other)
             /\ Only(entries'["store"], key)
                  = CheckEntries(Only(entries["store"], key), options["store"], now, key)
             /\ [f \in {"isLimited", "remaining", "resetAt"} |-> result'[f]]
                  = CheckResult(Only(entries["store"], key), options["store"], now, key)]_vars

\* one key is blocked and the other, checked after it, opens its own window
C7_Witness ==
    /\ result.store = "store"
    /\ ~result.isLimited
    /\ calls["store"][result.key] = 1
    /\ \E other \in Keys \ {result.key} :
          /\ other \in DOMAIN entries["store"]
          /\ entries["store"][other].count > M
          /\ result.at < entries["store"][other].resetAt

\* the stored count of key goes up by one in this step
CountIncremented(key) ==
    /\ key \in DOMAIN entries["store"]
    /\ key \in DOMAIN entries'["store"]
    /\ entries'["store"][key].count = entries["store"][key].count + 1

\* C18: among the check calls of a key that return the same resetAt, at most
\* maxRequests are admitted, whatever the threshold, the calls, the clock and
\* the cleanup do; and a stored count is incremented only while now < resetAt.
C18_AtMostThresholdPerWindow ==
    [][\A key \in Keys :
          /\ admitted'["store"][key].n <= M
          /\ CountIncremented(key) =>
                /\ now < entries["store"][key].resetAt
                /\ entries'["store"][key].resetAt = entries["store"][key].resetAt]_vars

\* the same with a threshold of at least 1
C18_PositiveThreshold ==
    [][M >= 1 =>
          \A key \in Keys :
             /\ admitted'["store"][key].n <= M
             /\ CountIncremented(key) =>
                   /\ now < entries["store"][key].resetAt
                   /\ entries'["store"][key].resetAt = entries["store"][key].resetAt]_vars

\* a key has used up a second window after its first
C18_PositiveThresholdWitness ==
    /\ M >= 1
    /\ result.store = "store"
    /\ result.isLimited
    /\ admitted["store"][result.key] = [resetAt |-> result.resetAt, n |-> M]
    /\ result.resetAt > firstAt["store"][result.key] + W

\* C17: once destroy() has returned, the cleanup never runs again: the timer
\* stays cleared and no key is removed from the store; a destroy() call
\* changes nothing else, a second one changes nothing at all, and a check made
\* afterwards updates the store and answers as it always does.
C17_NoSweepAfterDestroy ==
    [][/\ destroys'["store"] # destroys["store"] =>
             /\ cleanupTimer'["store"] = NoTimer
             /\ entries' = entries
             /\ result' = result
             /\ destroys["store"] >= 1 => cleanupTimer' = cleanupTimer
       /\ destroys["store"] >= 1 =>
             /\ cleanupTimer["store"] = NoTimer
             /\ cleanupTimer'["store"] = NoTimer
             /\ DOMAIN entries["store"] \subseteq DOMAIN entries'["store"]
             /\ \A key \in Keys :
                   IF IsCheck(key)
                   THEN /\ entries'["store"] = CheckEntries(entries["store"], options["store"], now, key)
                        /\ [f \in {"isLimited", "remaining", "resetAt"} |-> result'[f]]
                             = CheckResult(entries["store"], options["store"], now, key)
                   ELSE Only(entries'["store"], key) = Only(entries["store"], key)]_vars

\* destroy() was called twice, the first run of the cleanup is overdue, an
\* expired entry is still in the store and a check has just been answered
C17_Witness ==
    /\ destroys["store"] = 2
    /\ cleanupTimer["store"] = NoTimer
    /\ now >= CLEANUP_INTERVAL_MS
    /\ result.store = "store"
    /\ result.stopped
    /\ result.at = now
    /\ ~result.isLimited
    /\ \E key \in DOMAIN entries["store"] : now >= entries["store"][key].resetAt

\* key has an entry whose resetAt has passed
Expired(key) ==
    /\ key \in DOMAIN entries["store"]
    /\ now >= entries["store"][key].resetAt

\* C23: a run of the cleanup removes exactly the entries whose resetAt has
\* passed (resetAt <= now) and leaves the others with their count and resetAt;
\* and while destroy() has not stopped it the cleanup keeps running: an
\* expired entry is removed, unless its key is checked again (which replaces
\* it by an entry that is not expired) or destroy() is called. The clock of
\* the model ends at LastSweepInstant, so this is stated for the runs that are
\* scheduled up to then.
C23_SweepRemovesExpired ==
    /\ [][(cleanupTimer'["store"] # cleanupTimer["store"] /\ cleanupTimer'["store"] # NoTimer) =>
            /\ DOMAIN entries'["store"]
                 = {key \in DOMAIN entries["store"] : entries["store"][key].resetAt > now}
            /\ \A key \in DOMAIN entries'["store"] :
                  entries'["store"][key] = entries["store"][key]
            /\ cleanupTimer'["store"] = now + CLEANUP_INTERVAL_MS]_vars
    /\ \A key \in Keys :
          (Expired(key) /\ cleanupTimer["store"] # NoTimer
           /\ cleanupTimer["store"] <= LastSweepInstant)
             ~> (~Expired(key) \/ cleanupTimer["store"] = NoTimer)

\* the run of the cleanup at the last instant has removed an expired entry and
\* has left an entry whose window is still running
C23_Witness ==
    /\ now = LastSweepInstant
    /\ cleanupTimer["store"] = now + CLEANUP_INTERVAL_MS
    /\ \E key \in Keys :
          /\ key \notin DOMAIN entries["store"]
          /\ key \in DOMAIN unswept["store"]
          /\ unswept["store"][key].resetAt = now
    /\ \E key \in DOMAIN entries["store"] : entries["store"][key].resetAt > now

\* C24: whatever runs of the cleanup, and whatever destroy() calls, come
\* between the check calls, every check returns the isLimited, remaining and
\* resetAt that the same calls at the same times return from a store whose
\* cleanup never ran; and at any time the next check of any key would.
C24_SweepInvisibleToCallers ==
    [][\A key \in Keys :
          /\ IsCheck(key) =>
                [f \in {"isLimited", "remaining", "resetAt"} |-> result'[f]]
                   = CheckResult(unswept["store"], options["store"], now, key)
          /\ CheckResult(entries'["store"], options["store"], now', key)
                = CheckResult(unswept'["store"], options["store"], now', key)]_vars

\* the cleanup has removed the entry of a key, and a check made at a later
\* time has been answered
C24_Witness ==
    /\ result.store = "store"
    /\ cleanupTimer["store"] # NoTimer
    /\ cleanupTimer["store"] > CLEANUP_INTERVAL_MS
    /\ result.at > cleanupTimer["store"] - CLEANUP_INTERVAL_MS
    /\ DOMAIN unswept["store"] # DOMAIN entries["store"]
    /\ calls["store"][result.key] >= 2

(***************************************************************************)
(* Properties of the middleware, checked under SpecMiddleware              *)
(***************************************************************************)
\* C8: the remaining of every check result, and every X-RateLimit-Remaining
\* header, is at least 0.
C8_RemainingNonNegative ==
    /\ result.store = "store" => result.remaining >= 0
    /\ "X-RateLimit-Remaining" \in DOMAIN res.headers
          => res.headers["X-RateLimit-Remaining"] >= 0

\* C9: a Retry-After header is never negative.
C9_RetryAfterNonNegative ==
    "Retry-After" \in DOMAIN res.headers => res.headers["Retry-After"] >= 0

\* C11: one invocation of the middleware makes exactly one store.check, for
\* the caller's key, and reports limit, remaining and ceil(resetAt / 1000);
\* then exactly one of two things happens: the caller is admitted, next() is
\* called once and no 429 is sent, or the caller is limited, the 429 with the
\* configured message and code is sent and next() is never called.
C11_OneCheckThenNextOr429 ==
    [][/\ (pc = "middleware" /\ now' = now) =>
             LET key == KeyOf(req.ip)
                 r == CheckResult(entries["store"], options["store"], now, key)
             IN  /\ entries'["store"] = CheckEntries(entries["store"], options["store"], now, key)
                 /\ [f \in DOMAIN r |-> result'[f]] = r
                 /\ result'.store = "store" /\ result'.key = key
                 /\ res'.headers["X-RateLimit-Limit"] = options["store"].maxRequests
                 /\ res'.headers["X-RateLimit-Remaining"] = r.remaining
                 /\ res'.headers["X-RateLimit-Reset"] = Ceil(r.resetAt, 1000)
                 /\ res'.statusCode = 200
                 /\ IF r.isLimited
                    THEN pc' = "limited" /\ res'.nextCalled = <<>>
                    ELSE pc' = "handler" /\ res'.nextCalled = <<"store">>
       /\ (pc = "limited" /\ now' = now) =>
             /\ entries' = entries
             /\ pc' = "idle"
             /\ res'.statusCode = 429
             /\ res'.body = [success |-> FALSE, message |-> options["store"].message,
                             code |-> options["store"].code]
             /\ res'.nextCalled = <<>>
       /\ (pc = "handler" /\ now' = now) =>
             /\ entries' = entries
             /\ pc' = "idle"
             /\ res' = res
             /\ res.statusCode = 200
             /\ res.nextCalled = <<"store">>]_vars

\* a caller admitted before is limited: the 429 is sent and next() was not called
C11_Witness ==
    /\ pc = "idle"
    /\ options["store"].maxRequests >= 1
    /\ result.isLimited
    /\ res.statusCode = 429
    /\ res.body.code = options["store"].code
    /\ res.nextCalled = <<>>
    /\ entries["store"][KeyOf(req.ip)].count = options["store"].maxRequests + 1

(***************************************************************************)
(* Properties of LinkService, checked under SpecService                    *)
(***************************************************************************)
\* C12: shortenUrl of a malformed URL throws the AppError that errorHandler
\* sends as 400 INVALID_URL, returns and saves nothing, and leaves the
\* repository and both caches, the order of their entries included, as they
\* were.
C12_MalformedUrlTouchesNothing ==
    [][(out'.op = "shortenUrl" /\ out'.arg \in MalformedUrls) =>
          /\ out'.thrown.code = "INVALID_URL"
          /\ ErrorHandler(out'.thrown).statusCode = 400
          /\ ErrorHandler(out'.thrown).body.error.code = "INVALID_URL"
          /\ out'.returned = Undefined
          /\ out'.saved = Undefined
          /\ objects' = objects
          /\ links' = links
          /\ shortCodeCache' = shortCodeCache
          /\ urlCache' = urlCache]_vars

\* a malformed URL was refused by a service whose repository holds two Links
\* and whose caches are full
C12_Witness ==
    /\ out.op = "shortenUrl"
    /\ out.arg = "not a url"
    /\ out.thrown.code = "INVALID_URL"
    /\ Len(links) = 2
    /\ maxSize = 2
    /\ Len(urlCache) = 2
    /\ Len(shortCodeCache) = 2

\* the Links the repository holds, by reference
Stored == {RepoValues(links)[i] : i \in 1..Len(links)}

\* the Links constructed so far for a URL
LinksFor(url) == {r \in DOMAIN objects : objects[r].originalUrl = url}

\* C13: resolveShortCode throws the AppError that errorHandler sends as 404
\* LINK_NOT_FOUND exactly when the short code is neither a key of the
\* short-code cache nor the shortCode of a Link in the repository; the call
\* then returns nothing and leaves the repository and both caches as they were.
C13_NotFoundOnlyWhenUnknown ==
    [][out'.op = "resolveShortCode" =>
          LET unknown == /\ ~MapHas(shortCodeCache, out'.arg)
                         /\ \A r \in Stored : objects[r].shortCode # out'.arg
          IN  /\ out'.thrown # NoError <=> unknown
              /\ unknown =>
                    /\ out'.thrown.code = "LINK_NOT_FOUND"
                    /\ ErrorHandler(out'.thrown).statusCode = 404
                    /\ ErrorHandler(out'.thrown).body.error.code = "LINK_NOT_FOUND"
                    /\ out'.returned = Undefined
                    /\ objects' = objects
                    /\ links' = links
                    /\ shortCodeCache' = shortCodeCache
                    /\ urlCache' = urlCache
              /\ ~unknown =>
                    /\ out'.returned # Undefined
                    /\ objects[out'.returned].shortCode = out'.arg]_vars

\* a value the generator has returned, but only as an id, was not found while
\* the repository and the caches hold Links
C13_Witness ==
    /\ out.op = "resolveShortCode"
    /\ out.thrown.code = "LINK_NOT_FOUND"
    /\ out.arg \in Generated
    /\ Len(links) >= 2
    /\ Len(shortCodeCache) >= 1
    /\ Len(urlCache) >= 1

\* C14: shortenUrl of a URL whose only Link so far is still in the URL cache
\* returns that very Link, saves nothing, and the repository holds exactly
\* one Link for that URL.
C14_RepeatReturnsCachedLink ==
    [][\A url \in WellFormedUrls :
          (out'.op = "shortenUrl" /\ out'.arg = url /\ MapHas(urlCache, url)
           /\ LinksFor(url) = {MapGet(urlCache, url)}) =>
             /\ out'.returned = MapGet(urlCache, url)
             /\ out'.thrown = NoError
             /\ out'.saved = Undefined
             /\ objects' = objects
             /\ links' = links
             /\ Cardinality({r \in Stored : objects[r].originalUrl = url}) = 1]_vars

\* the same without the count of stored Links
C14_RepeatSavesNothing ==
    [][\A url \in WellFormedUrls :
          (out'.op = "shortenUrl" /\ out'.arg = url /\ MapHas(urlCache, url)) =>
             /\ out'.returned = MapGet(urlCache, url)
             /\ out'.thrown = NoError
             /\ out'.saved = Undefined
             /\ objects' = objects
             /\ links' = links]_vars

\* C15: shortenUrl of a URL that Links were created for before and that is no
\* longer a key of the URL cache returns none of them: it constructs and saves
\* another Link, whose shortCode differs from theirs, and afterwards the
\* repository returns each of these Links for its id.
C15_EvictedUrlGetsSecondLink ==
    [][\A url \in WellFormedUrls :
          (out'.op = "shortenUrl" /\ out'.arg = url /\ LinksFor(url) # {}
           /\ ~MapHas(urlCache, url)) =>
             /\ out'.returned \notin LinksFor(url)
             /\ out'.saved = out'.returned
             /\ out'.returned \in DOMAIN objects' \ DOMAIN objects
             /\ \A r \in LinksFor(url) :
                   /\ objects'[out'.returned].shortCode # objects[r].shortCode
                   /\ RepoFindById(links', objects[r].id) = r
             /\ RepoFindById(links', objects'[out'.returned].id) = out'.returned]_vars

\* the part of it that does not depend on the values generated
C15_EvictedUrlIsSavedAgain ==
    [][\A url \in WellFormedUrls :
          (out'.op = "shortenUrl" /\ out'.arg = url /\ LinksFor(url) # {}
           /\ ~MapHas(urlCache, url)) =>
             /\ out'.returned \notin LinksFor(url)
             /\ out'.saved = out'.returned
             /\ out'.returned \in DOMAIN objects' \ DOMAIN objects
             /\ RepoFindById(links', objects'[out'.returned].id) = out'.returned]_vars

\* C16: every Link that shortenUrl passed to save is what the repository
\* returns for that Link's id, after any sequence of calls.
C16_NoLinkEverDeleted ==
    \A r \in DOMAIN objects : RepoFindById(links, objects[r].id) = r

\* what does hold: an id, once stored, stays stored, and the repository returns
\* for it the Link saved last under that id
C16_LastSavedPerIdIsKept ==
    /\ \A r \in DOMAIN objects : MapHas(links, objects[r].id)
    /\ \A i \in 1..Len(links) :
          /\ objects[links[i].value].id = links[i].key
          /\ \A r \in DOMAIN objects :
                objects[r].id = links[i].key =>
                   \E j, k \in 1..Len(LinkRefs) :
                      LinkRefs[j] = r /\ LinkRefs[k] = links[i].value /\ j <= k

\* C19: the calls that write a cache are a shortenUrl that misses the URL cache
\* and a resolveShortCode that misses the short-code cache and finds the Link
\* in the repository; each of them leaves the Link it returns in the
\* short-code cache under its shortCode and in the URL cache under its
\* originalUrl, and no other call changes the keys of a cache. A shortenUrl of
\* that Link's originalUrl right after such a resolveShortCode returns the
\* same Link and saves nothing.
C19_BothCachesPopulated ==
    [][/\ out'.populated <=>
             \/ /\ out'.op = "shortenUrl"
                /\ IsWellFormed(out'.arg)
                /\ ~MapHas(urlCache, out'.arg)
             \/ /\ out'.op = "resolveShortCode"
                /\ ~MapHas(shortCodeCache, out'.arg)
                /\ \E r \in Stored : objects[r].shortCode = out'.arg
       /\ out'.populated =>
             /\ out'.returned \in DOMAIN objects'
             /\ MapGet(shortCodeCache', objects'[out'.returned].shortCode) = out'.returned
             /\ MapGet(urlCache', objects'[out'.returned].originalUrl) = out'.returned
       /\ ~out'.populated =>
             /\ KeysOf(shortCodeCache') = KeysOf(shortCodeCache)
             /\ KeysOf(urlCache') = KeysOf(urlCache)
       /\ (out.op = "resolveShortCode" /\ out.populated /\ out'.op = "shortenUrl"
           /\ out'.arg = objects[out.returned].originalUrl) =>
             /\ out'.returned = out.returned
             /\ out'.saved = Undefined
             /\ objects' = objects
             /\ links' = links]_vars

\* resolveShortCode has just found in the repository a Link that both caches
\* had lost, and has put it into both
C19_Witness ==
    /\ out.op = "resolveShortCode"
    /\ out.populated
    /\ Len(links) >= 2
    /\ out.returned = links[1].value
    /\ MapGet(shortCodeCache, out.arg) = out.returned
    /\ MapGet(urlCache, objects[out.returned].originalUrl) = out.returned
    /\ Len(urlCache) = maxSize

\* this step is a shortenUrl that saved a Link whose shortCode an earlier Link,
\* created for another URL, already had
SavedWithRepeatedShortCode ==
    /\ out'.op = "shortenUrl"
    /\ out'.saved # Undefined
    /\ \E r \in DOMAIN objects :
          /\ objects[r].shortCode = objects'[out'.saved].shortCode
          /\ objects[r].originalUrl # out'.arg

\* C20 as stated: after such a save, findByShortCode returns the second Link
\* for that code, and the short-code cache holds the second Link for it.
C20_SecondSaveOverwrites ==
    [][SavedWithRepeatedShortCode =>
          LET second == out'.saved
              shortCode == objects'[second].shortCode
          IN  /\ RepoFindByShortCode(links', objects', shortCode) = second
              /\ MapGet(shortCodeCache', shortCode) = second]_vars

\* the place of id among the keys of the repository, 0 if it is not a key
PlaceOf(ls, id) ==
    IF MapHas(ls, id) THEN CHOOSE i \in 1..Len(ls) : ls[i].key = id ELSE 0

\* C20, amended: after such a save the short-code cache holds the second Link
\* for that code, but findByShortCode goes on returning the Link it returned
\* before, the one stored earliest with that code; it returns the second Link
\* only when no stored Link had the code any more, or when the second Link's
\* id repeats too and the second Link took a place in the repository that is
\* not behind that Link's.
C20_FirstStoredLinkWins ==
    [][SavedWithRepeatedShortCode =>
          LET second == out'.saved
              shortCode == objects'[second].shortCode
              before == {i \in 1..Len(links) : objects[links[i].value].shortCode = shortCode}
              first == CHOOSE i \in before : \A j \in before : i <= j
              place == PlaceOf(links, objects'[second].id)
          IN  /\ MapGet(shortCodeCache', shortCode) = second
              /\ RepoFindByShortCode(links', objects', shortCode) =
                    IF before = {} \/ (place # 0 /\ place <= first)
                    THEN second
                    ELSE links[first].value
              /\ Len(links') = IF place = 0 THEN Len(links) + 1 ELSE Len(links)]_vars

\* two Links for different URLs share a short code and differ in id: the
\* repository holds both and returns the first for the code, the short-code
\* cache holds the second
C20_Witness ==
    /\ out.op = "shortenUrl"
    /\ out.saved # Undefined
    /\ \E first \in Stored \ {out.saved} :
          /\ objects[first].shortCode = objects[out.saved].shortCode
          /\ objects[first].originalUrl # objects[out.saved].originalUrl
          /\ objects[first].id # objects[out.saved].id
          /\ out.saved \in Stored
          /\ RepoFindByShortCode(links, objects, objects[first].shortCode) = first
          /\ MapGet(shortCodeCache, objects[first].shortCode) = out.saved

(***************************************************************************)
(* Properties of the application's chain, checked under SpecApp            *)
(***************************************************************************)
\* C10: a request is checked by the global policy first; the creation-scoped
\* store changes during a request only when the request is a POST that the
\* global policy has admitted, and that change is one check for the caller; a
\* request the global policy denies ends with its 429 and the creation-scoped
\* store as it was.
C10_GlobalBeforeCreateLink ==
    [][/\ (pc = "idle" /\ pc' # "idle") => Head(req'.chain) = "global"
       /\ (pc # "idle" /\ entries'["createLink"] # entries["createLink"])
             => /\ pc = "middleware"
                /\ req.method = "POST"
                /\ req.chain = <<"createLink">>
                /\ res.nextCalled = <<"global">>
                /\ entries'["createLink"]
                     = CheckEntries(entries["createLink"], CreateLinkOptions, now, KeyOf(req.ip))
                /\ entries'["global"] = entries["global"]
       /\ (pc = "middleware" /\ pc' = "limited" /\ result'.store = "global")
             => /\ entries'["createLink"] = entries["createLink"]
                /\ res'.nextCalled = <<>>
       /\ (pc = "limited" /\ result.store = "global" /\ pc' # pc)
             => /\ pc' = "idle"
                /\ res'.statusCode = 429
                /\ res'.nextCalled = <<>>
                /\ entries' = entries]_vars

\* a POST of a caller who has a creation-scoped entry has been denied by the
\* global policy
C10_Witness ==
    /\ pc = "idle"
    /\ req.method = "POST"
    /\ res.statusCode = 429
    /\ res.body.code = "RATE_LIMIT_EXCEEDED"
    /\ res.nextCalled = <<>>
    /\ KeyOf(req.ip) \in DOMAIN entries["createLink"]
    /\ now < entries["createLink"][KeyOf(req.ip)].resetAt

====
